---- MODULE Spec2Model ----
(***************************************************************************)
(* phenocover: the paginated SensorThings fetch of phenocover/utils.py     *)
(* (fetch_data, fetch_sensorthingsapi) and the `plots fetch` command of    *)
(* phenocover/cli.py, as a state machine.                                  *)
(*                                                                         *)
(* The HTTP server is a fixed map from URLs to responses.  A response is a *)
(* transport failure, an HTTP error status, a 200 whose body is not JSON,  *)
(* or a 200 whose body is a JSON object; a JSON object is a function whose *)
(* DOMAIN is the set of keys it carries, as a Python dict is.              *)
(***************************************************************************)
EXTENDS Integers, Sequences, FiniteSets, TLC

\* ------------------------------------------------------------------ bounds
\* Requests one call of fetch_sensorthingsapi may issue in the model (the
\* code has no cap; the guard of RequestsGet stops the model there).
MaxRequests == 4
\* Calls of fetch_sensorthingsapi made one after the other.
MaxCalls == 2

\* ------------------------------------------------------------- the server
URLs == {"u1", "u2", "u3"}

\* JSON null / Python None.
None == "<None>"

KeyValue == "value"
KeyNextLink == "@iot.nextLink"

\* The `value` arrays a page may carry.
Values == {<<>>, <<"a">>, <<"b", "c">>}
\* What `@iot.nextLink` may hold when the key is present.
NextLinks == URLs \cup {"", None}

\* A JSON object with the keys `keys`.
Dict(keys, v, n) == [k \in keys |-> IF k = KeyValue THEN v ELSE n]

DictsOver(vals) ==
    {Dict({KeyValue, KeyNextLink}, v, n) : v \in vals, n \in NextLinks}
    \cup {Dict({KeyValue}, v, None) : v \in vals}
    \cup {Dict({KeyNextLink}, <<>>, n) : n \in NextLinks}
    \cup {Dict({}, <<>>, None)}

NoBody == Dict({}, <<>>, None)

\* What a URL may answer: a transport failure, an HTTP error status, a 200
\* whose body is not JSON, or a 200 with a JSON object.
ResponsesOver(vals) ==
    {[kind |-> k, json |-> NoBody] : k \in {"ConnectionError", "HTTPError", "NotJSON"}}
    \cup {[kind |-> "OK", json |-> d] : d \in DictsOver(vals)}

Responses == ResponsesOver(Values)

VARIABLES
    server,            \* [URLs -> Responses]: what each URL answers
    pc,                \* position of the running call
    site,              \* the line fetch_data was called from: "L78" or "L82"
    url,               \* argument of fetch_sensorthingsapi
    target,            \* argument of fetch_data
    data,              \* local `data`
    fetched_entities,  \* local `fetched_entities`
    requests,          \* URLs of the GET requests of this call, in order
    pages,             \* responses received in this call, in order
    result,            \* <<>> or <<the returned list>>
    exc,               \* exception leaving the call, "" when none
    exit_code,         \* -1 while the process runs, else its exit code
    log,               \* logger.error records
    calls,             \* finished calls of fetch_sensorthingsapi
    cli_pc,            \* position of the `plots fetch` command
    config_file,       \* option --config
    trial_id,          \* option --trial-id
    sensorthingsapi_url,           \* option --sensorthingsapi-url
    effective_trial_id,            \* local of fetch_plots
    effective_sensorthingsapi_url, \* local of fetch_plots
    loads,             \* configuration files loaded
    root_level,        \* level of the root logger
    handlers,          \* root_logger.handlers, in order
    noisy_level,       \* level of the third-party loggers, 0 when not set
    log_dir,           \* Logger._log_dir
    configures,        \* configure_logging calls made
    last_file,         \* enable_file_logging of the latest configure_logging
    last_console,      \* enable_console_logging of the latest configure_logging
    last_op,           \* the latest logging call
    log_calls          \* configure_logging and set_level calls made

fetchVars == <<pc, site, url, target, data, fetched_entities, requests, pages,
               result, exc, log, calls>>
cliVars == <<cli_pc, config_file, trial_id, sensorthingsapi_url,
             effective_trial_id, effective_sensorthingsapi_url, loads>>
logVars == <<root_level, handlers, noisy_level, log_dir, configures,
             last_file, last_console, last_op, log_calls>>
vars == <<server, fetchVars, exit_code, cliVars, logVars>>

\* ------------------------------------------------------- Python semantics
\* dict.get(key): the value under key, None when the key is missing.
DictGet(d, k) == IF k \in DOMAIN d THEN d[k] ELSE None

\* A wrong truth value: only None is false, the empty string counts as a link.
TruthyUnlessNone(x) == x # None

\* Truth value of a JSON string or null: None and "" are false.
Truthy(x) == x \notin {None, ""}

\* response.json() raises when the body is not JSON.
JsonRaises(resp) == resp.kind = "NotJSON"

\* A wrong extend: the new page's entities are put in front.
ExtendPrepend(acc, v) == v \o acc

\* list.extend
Extend(acc, v) == acc \o v

\* The record kept of a finished call.
CallRecord(o, r, e) ==
    [url |-> url, requests |-> requests, result |-> r, exc |-> e, outcome |-> o]

\* --------------------------------------------------------------- actions
\* Entry of fetch_sensorthingsapi(u): a new frame; line 78 calls fetch_data(u).
StartFetch(u) ==
    /\ pc' = "L60"
    /\ site' = "L78"
    /\ url' = u
    /\ target' = u
    /\ data' = NoBody
    /\ fetched_entities' = <<>>
    /\ requests' = <<>>
    /\ pages' = <<>>
    /\ result' = <<>>
    /\ exc' = ""
    /\ UNCHANGED <<server, log, calls, exit_code>>

\* A caller of the library calls fetch_sensorthingsapi(u).
Call(u) ==
    /\ cli_pc = "none"
    /\ pc \in {"idle", "returned", "raised"}
    /\ exit_code = -1
    /\ Len(calls) < MaxCalls
    /\ StartFetch(u)
    /\ UNCHANGED cliVars
    /\ UNCHANGED logVars

\* fetch_data, line 60: requests.get(url) sends the GET and blocks.
RequestsGet ==
    /\ pc = "L60"
    /\ Len(requests) < MaxRequests
    /\ requests' = Append(requests, target)
    /\ pc' = "L60r"
    /\ UNCHANGED <<server, site, url, target, data, fetched_entities, pages,
                   result, exc, log, calls, exit_code>>

\* A wrong test: only transport failures raise (raise_for_status left out).
RaisesOnTransportOnly(resp) == resp.kind = "ConnectionError"

\* requests.get / raise_for_status raise a RequestException for a transport
\* failure and for an HTTP error status.
RaisesRequestException(resp) == resp.kind \in {"ConnectionError", "HTTPError"}

\* A wrong handler: the failed request is sent again instead of exiting.
FetchDataRetry ==
    /\ pc = "L60r"
    /\ RaisesRequestException(server[target])
    /\ pages' = Append(pages, server[target])
    /\ log' = Append(log, "An error occurred while fetching data")
    /\ pc' = "L60"
    /\ UNCHANGED <<server, site, url, target, data, fetched_entities,
                   requests, result, exc, calls, exit_code>>

\* fetch_data, lines 60-64: the request fails or the status is an error;
\* the handler logs and calls sys.exit(1).
FetchDataExit ==
    /\ pc = "L60r"
    /\ RaisesRequestException(server[target])
    /\ pages' = Append(pages, server[target])
    /\ log' = Append(log, "An error occurred while fetching data")
    /\ exc' = "SystemExit"
    /\ exit_code' = 1
    /\ pc' = "exited"
    /\ calls' = Append(calls, CallRecord("exited", <<>>, "SystemExit"))
    /\ UNCHANGED <<server, site, url, target, data, fetched_entities,
                   requests, result>>

\* fetch_data, line 65: response.json() raises outside the try block; the
\* exception leaves fetch_data and fetch_sensorthingsapi.
FetchDataJsonError ==
    /\ pc = "L60r"
    /\ ~RaisesRequestException(server[target])
    /\ JsonRaises(server[target])
    /\ pages' = Append(pages, server[target])
    /\ exc' = "JSONDecodeError"
    /\ pc' = "raised"
    /\ calls' = Append(calls, CallRecord("raised", <<>>, "JSONDecodeError"))
    /\ UNCHANGED <<server, site, url, target, data, fetched_entities,
                   requests, result, log, exit_code>>

\* fetch_data, line 65, and the assignment to `data` at line 78 or 82.
FetchDataReturn ==
    /\ pc = "L60r"
    /\ ~RaisesRequestException(server[target])
    /\ ~JsonRaises(server[target])
    /\ pages' = Append(pages, server[target])
    /\ data' = server[target].json
    /\ pc' = IF site = "L78" THEN "L79" ELSE "L83"
    /\ UNCHANGED <<server, site, url, target, fetched_entities, requests,
                   result, exc, log, calls, exit_code>>

\* A wrong line 79: the accumulator outlives the call (the previous call's
\* returned list is extended instead of a new list being bound).
AssignFirstShared ==
    /\ pc = "L79"
    /\ KeyValue \in DOMAIN data
    /\ fetched_entities' =
          IF calls # <<>> /\ calls[Len(calls)].result # <<>>
          THEN Extend(calls[Len(calls)].result[1], data[KeyValue])
          ELSE data[KeyValue]
    /\ pc' = "L81"
    /\ UNCHANGED <<server, site, url, target, data, requests, pages, result,
                   exc, log, calls, exit_code>>

\* Line 79: fetched_entities = data['value'].
AssignFirst ==
    /\ pc = "L79"
    /\ KeyValue \in DOMAIN data
    /\ fetched_entities' = data[KeyValue]
    /\ pc' = "L81"
    /\ UNCHANGED <<server, site, url, target, data, requests, pages, result,
                   exc, log, calls, exit_code>>

\* Line 83: fetched_entities.extend(data['value']).
ExtendPage ==
    /\ pc = "L83"
    /\ KeyValue \in DOMAIN data
    /\ fetched_entities' = Extend(fetched_entities, data[KeyValue])
    /\ pc' = "L81"
    /\ UNCHANGED <<server, site, url, target, data, requests, pages, result,
                   exc, log, calls, exit_code>>

\* Lines 79 and 83: data['value'] on a dict without the key raises KeyError.
ValueKeyError ==
    /\ pc \in {"L79", "L83"}
    /\ KeyValue \notin DOMAIN data
    /\ exc' = "KeyError"
    /\ pc' = "raised"
    /\ calls' = Append(calls, CallRecord("raised", <<>>, "KeyError"))
    /\ UNCHANGED <<server, site, url, target, data, fetched_entities,
                   requests, pages, result, log, exit_code>>

\* A wrong loop body: the next request goes to the initial URL again.
LoopContinueInitialUrl ==
    /\ pc = "L81"
    /\ Truthy(DictGet(data, KeyNextLink))
    /\ target' = url
    /\ site' = "L82"
    /\ pc' = "L60"
    /\ UNCHANGED <<server, url, data, fetched_entities, requests, pages,
                   result, exc, log, calls, exit_code>>

\* Lines 81-82: the loop test is true; fetch_data(data['@iot.nextLink']).
LoopContinue ==
    /\ pc = "L81"
    /\ Truthy(DictGet(data, KeyNextLink))
    /\ target' = data[KeyNextLink]
    /\ site' = "L82"
    /\ pc' = "L60"
    /\ UNCHANGED <<server, url, data, fetched_entities, requests, pages,
                   result, exc, log, calls, exit_code>>

\* A wrong loop test: the loop also ends after two pages (a page cap).
LoopExitCapped ==
    /\ pc = "L81"
    /\ ~Truthy(DictGet(data, KeyNextLink)) \/ Len(pages) >= 2
    /\ pc' = "L85"
    /\ UNCHANGED <<server, site, url, target, data, fetched_entities,
                   requests, pages, result, exc, log, calls, exit_code>>

\* Line 81: the loop test is false.
LoopExit ==
    /\ pc = "L81"
    /\ ~Truthy(DictGet(data, KeyNextLink))
    /\ pc' = "L85"
    /\ UNCHANGED <<server, site, url, target, data, fetched_entities,
                   requests, pages, result, exc, log, calls, exit_code>>

\* Line 85: return fetched_entities.
Return ==
    /\ pc = "L85"
    /\ result' = <<fetched_entities>>
    /\ pc' = "returned"
    /\ calls' = Append(calls, CallRecord("returned", <<fetched_entities>>, ""))
    /\ UNCHANGED <<server, site, url, target, data, fetched_entities,
                   requests, pages, exc, log, exit_code>>

FetchStep ==
    /\ \/ RequestsGet
       \/ FetchDataExit
       \/ FetchDataJsonError
       \/ FetchDataReturn
       \/ AssignFirst
       \/ ExtendPage
       \/ ValueKeyError
       \/ LoopContinue
       \/ LoopExit
       \/ Return
    /\ UNCHANGED cliVars
    /\ UNCHANGED logVars

\* ------------------------------------------------ the `plots fetch` command
\* Values the three options may take: not given (None), given empty, given.
ConfigFileArgs == {None, "", "config.yml"}
TrialIdArgs == {None, "", "T1"}
UrlArgs == {None, "", "u1"}

\* ConfigParser.load_config: the exceptions it may raise and the
\* configurations it may return.
LoadConfigRaises == {"FileNotFoundError", "ValueError", "PermissionError"}
LoadedConfigs == [trial_id : {"T1"}, sensorthingsapi_url : URLs]

\* Plots.fetch_plots_geojson(url, trial): the URL it passes to
\* fetch_sensorthingsapi.
PlotsRequestUrl(u, t) == u

\* Python's exception classes: what `except ValueError` catches.
IsValueError(e) == e \in {"ValueError", "JSONDecodeError"}

\* A wrong line 116: only --trial-id is looked at beside --config.
ConfigConflictTrialOnly(c, t, u) == Truthy(c) /\ Truthy(t)

\* Line 116: config_file and (trial_id or sensorthingsapi_url).
ConfigConflict(c, t, u) == Truthy(c) /\ (Truthy(t) \/ Truthy(u))

\* Line 121: not config_file and not (trial_id and sensorthingsapi_url).
ParametersMissing(c, t, u) == ~Truthy(c) /\ ~(Truthy(t) /\ Truthy(u))

\* An exception is in flight inside the try block of fetch_plots.
InTryRaised ==
    \/ cli_pc = "except"
    \/ cli_pc = "fetching" /\ pc = "raised"

\* Lines 116-119: both approaches given; log and raise typer.Exit(1).
ValidateConflict ==
    /\ cli_pc = "start"
    /\ ConfigConflict(config_file, trial_id, sensorthingsapi_url)
    /\ log' = Append(log, "Cannot specify both --config and individual parameters")
    /\ exit_code' = 1
    /\ cli_pc' = "exit"
    /\ UNCHANGED <<server, pc, site, url, target, data, fetched_entities,
                   requests, pages, result, exc, calls, config_file, trial_id,
                   sensorthingsapi_url, effective_trial_id,
                   effective_sensorthingsapi_url, loads>>
    /\ UNCHANGED logVars

\* Lines 121-124: neither approach complete; log and raise typer.Exit(1).
ValidateMissing ==
    /\ cli_pc = "start"
    /\ ~ConfigConflict(config_file, trial_id, sensorthingsapi_url)
    /\ ParametersMissing(config_file, trial_id, sensorthingsapi_url)
    /\ log' = Append(log, "Must specify either --config file OR both parameters")
    /\ exit_code' = 1
    /\ cli_pc' = "exit"
    /\ UNCHANGED <<server, pc, site, url, target, data, fetched_entities,
                   requests, pages, result, exc, calls, config_file, trial_id,
                   sensorthingsapi_url, effective_trial_id,
                   effective_sensorthingsapi_url, loads>>
    /\ UNCHANGED logVars

\* Lines 116-126: both tests are false; the try block is entered.
ValidatePass ==
    /\ cli_pc = "start"
    /\ ~ConfigConflict(config_file, trial_id, sensorthingsapi_url)
    /\ ~ParametersMissing(config_file, trial_id, sensorthingsapi_url)
    /\ cli_pc' = "try"
    /\ UNCHANGED <<server, fetchVars, exit_code, config_file, trial_id,
                   sensorthingsapi_url, effective_trial_id,
                   effective_sensorthingsapi_url, loads>>
    /\ UNCHANGED logVars

\* Lines 127-135: the configuration file is loaded and gives the parameters.
LoadConfig(config) ==
    /\ cli_pc = "try"
    /\ Truthy(config_file)
    /\ loads' = loads + 1
    /\ effective_trial_id' = config.trial_id
    /\ effective_sensorthingsapi_url' = config.sensorthingsapi_url
    /\ cli_pc' = "fetch"
    /\ UNCHANGED <<server, fetchVars, exit_code, config_file, trial_id,
                   sensorthingsapi_url>>
    /\ UNCHANGED logVars

\* Line 130: ConfigParser.load_config raises.
LoadConfigFails(e) ==
    /\ cli_pc = "try"
    /\ Truthy(config_file)
    /\ loads' = loads + 1
    /\ exc' = e
    /\ cli_pc' = "except"
    /\ UNCHANGED <<server, pc, site, url, target, data, fetched_entities,
                   requests, pages, result, log, calls, exit_code, config_file,
                   trial_id, sensorthingsapi_url, effective_trial_id,
                   effective_sensorthingsapi_url>>
    /\ UNCHANGED logVars

\* Lines 136-142: the options give the parameters.
UseArguments ==
    /\ cli_pc = "try"
    /\ ~Truthy(config_file)
    /\ effective_trial_id' = trial_id
    /\ effective_sensorthingsapi_url' = sensorthingsapi_url
    /\ cli_pc' = "fetch"
    /\ UNCHANGED <<server, fetchVars, exit_code, config_file, trial_id,
                   sensorthingsapi_url, loads>>
    /\ UNCHANGED logVars

\* Lines 144-146: Plots.fetch_plots_geojson is called; it fetches the plots
\* with fetch_sensorthingsapi.
FetchPlotsGeojson ==
    /\ cli_pc = "fetch"
    /\ StartFetch(PlotsRequestUrl(effective_sensorthingsapi_url, effective_trial_id))
    /\ cli_pc' = "fetching"
    /\ UNCHANGED <<config_file, trial_id, sensorthingsapi_url,
                   effective_trial_id, effective_sensorthingsapi_url, loads>>
    /\ UNCHANGED logVars

\* Lines 148-151: the fetch returned; the command ends normally.
FetchPlotsSuccess ==
    /\ cli_pc = "fetching"
    /\ pc = "returned"
    /\ exit_code' = 0
    /\ cli_pc' = "exit"
    /\ UNCHANGED <<server, fetchVars, config_file, trial_id,
                   sensorthingsapi_url, effective_trial_id,
                   effective_sensorthingsapi_url, loads>>
    /\ UNCHANGED logVars

\* The SystemExit of fetch_data is no Exception: no handler of fetch_plots
\* catches it, and the process ends with the code sys.exit was given.
SystemExitPropagates ==
    /\ cli_pc = "fetching"
    /\ pc = "exited"
    /\ cli_pc' = "exit"
    /\ UNCHANGED <<server, fetchVars, exit_code, config_file, trial_id,
                   sensorthingsapi_url, effective_trial_id,
                   effective_sensorthingsapi_url, loads>>
    /\ UNCHANGED logVars

\* Lines 153-155: except FileNotFoundError.
ExceptFileNotFound ==
    /\ InTryRaised
    /\ exc = "FileNotFoundError"
    /\ log' = Append(log, "Configuration file not found")
    /\ exit_code' = 1
    /\ cli_pc' = "exit"
    /\ UNCHANGED <<server, pc, site, url, target, data, fetched_entities,
                   requests, pages, result, exc, calls, config_file, trial_id,
                   sensorthingsapi_url, effective_trial_id,
                   effective_sensorthingsapi_url, loads>>
    /\ UNCHANGED logVars

\* Lines 156-158: except ValueError.
ExceptValueError ==
    /\ InTryRaised
    /\ exc # "FileNotFoundError"
    /\ IsValueError(exc)
    /\ log' = Append(log, "Configuration error")
    /\ exit_code' = 1
    /\ cli_pc' = "exit"
    /\ UNCHANGED <<server, pc, site, url, target, data, fetched_entities,
                   requests, pages, result, exc, calls, config_file, trial_id,
                   sensorthingsapi_url, effective_trial_id,
                   effective_sensorthingsapi_url, loads>>
    /\ UNCHANGED logVars

\* A wrong last handler: the error is logged and the command ends normally.
ExceptExceptionSwallowed ==
    /\ InTryRaised
    /\ exc # "FileNotFoundError"
    /\ ~IsValueError(exc)
    /\ log' = Append(log, "Error fetching plots")
    /\ exit_code' = 0
    /\ cli_pc' = "exit"
    /\ UNCHANGED <<server, pc, site, url, target, data, fetched_entities,
                   requests, pages, result, exc, calls, config_file, trial_id,
                   sensorthingsapi_url, effective_trial_id,
                   effective_sensorthingsapi_url, loads>>
    /\ UNCHANGED logVars

\* Lines 159-161: except Exception.
ExceptException ==
    /\ InTryRaised
    /\ exc # "FileNotFoundError"
    /\ ~IsValueError(exc)
    /\ log' = Append(log, "Error fetching plots")
    /\ exit_code' = 1
    /\ cli_pc' = "exit"
    /\ UNCHANGED <<server, pc, site, url, target, data, fetched_entities,
                   requests, pages, result, exc, calls, config_file, trial_id,
                   sensorthingsapi_url, effective_trial_id,
                   effective_sensorthingsapi_url, loads>>
    /\ UNCHANGED logVars

\* ------------------------------------------------- the logging subsystem
\* MaxLogCalls bounds the configure_logging and set_level calls of a run.
MaxLogCalls == 3

\* A `level` argument: an int or a level name in any case.
IntLevel(n) == [type |-> "int", int |-> n, str |-> ""]
StrLevel(name) == [type |-> "str", int |-> 0, str |-> name]
LevelArgs == {IntLevel(10), IntLevel(40), StrLevel("debug"), StrLevel("INFO"),
              StrLevel("Warning")}

\* str.upper on the level names.
Upper(name) ==
    CASE name = "debug" -> "DEBUG"
      [] name = "INFO" -> "INFO"
      [] name = "Warning" -> "WARNING"

\* getattr(logging, NAME): the numeric level of a level name.
LoggingAttr(name) ==
    CASE name = "DEBUG" -> 10
      [] name = "INFO" -> 20
      [] name = "WARNING" -> 30

\* Lines 118-119 and 271-272: a string level is converted to its number.
ToLevel(l) == IF l.type = "str" THEN LoggingAttr(Upper(l.str)) ELSE l.int

\* Lines 122-125: the log directory, ./logs when none is given.
LogDirArgs == {None, "out"}
ToLogDir(d) == IF d = None THEN "./logs" ELSE d

\* A wrong clearing loop: the handlers of earlier calls stay.
KeepHandlers(hs) == hs

\* Lines 142-143: every handler of the root logger is removed.
ClearHandlers(hs) == <<>>

\* Lines 158-201: the handlers one configure_logging call adds, each set to
\* `level`: the rotating file handler, then the console handler, a
\* RichHandler when rich is asked for and works, else a StreamHandler.
NewHandlers(level, file, console, rich, n) ==
    (IF file
     THEN <<[kind |-> "RotatingFileHandler", level |-> level, call |-> n]>>
     ELSE <<>>)
    \o (IF console
        THEN <<[kind |-> IF rich THEN "RichHandler" ELSE "StreamHandler",
                level |-> level, call |-> n]>>
        ELSE <<>>)

\* Lines 277-278: every handler is set to `level`.
SetHandlerLevels(hs, level) ==
    [i \in DOMAIN hs |-> [hs[i] EXCEPT !.level = level]]

\* Logger.configure_logging (lines 117-228).  rich_works: rich is installed,
\* the Console exists and RichHandler can be built.
ConfigureLogging(level, dir, file, console, use_rich, rich_works, suppress) ==
    /\ cli_pc = "none"
    /\ log_calls < MaxLogCalls
    /\ log_dir' = ToLogDir(dir)
    /\ root_level' = ToLevel(level)
    /\ handlers' = ClearHandlers(handlers)
                     \o NewHandlers(ToLevel(level), file, console,
                                    use_rich /\ rich_works, configures + 1)
    /\ noisy_level' = IF suppress /\ ToLevel(level) <= 10 THEN 20 ELSE noisy_level
    /\ configures' = configures + 1
    /\ last_file' = file
    /\ last_console' = console
    /\ last_op' = "configure_logging"
    /\ log_calls' = log_calls + 1
    /\ UNCHANGED <<server, fetchVars, exit_code, cliVars>>

\* Logger.set_level (lines 271-278).
SetLevel(level) ==
    /\ cli_pc = "none"
    /\ log_calls < MaxLogCalls
    /\ root_level' = ToLevel(level)
    /\ handlers' = SetHandlerLevels(handlers, ToLevel(level))
    /\ last_op' = "set_level"
    /\ log_calls' = log_calls + 1
    /\ UNCHANGED <<server, fetchVars, exit_code, cliVars, noisy_level, log_dir,
                   configures, last_file, last_console>>

\* A new process: the root logger has Python's default level and no
\* handler; importing the module builds the Logger without configuring.
LogInit ==
    /\ root_level = 30
    /\ handlers = <<>>
    /\ noisy_level = 0
    /\ log_dir = None
    /\ configures = 0
    /\ last_file = FALSE
    /\ last_console = FALSE
    /\ last_op = "none"
    /\ log_calls = 0

\* cli.py lines 39-46: the command module configures logging on import.
CliLogInit ==
    /\ root_level = LoggingAttr("DEBUG")
    /\ handlers = NewHandlers(LoggingAttr("DEBUG"), TRUE, TRUE, TRUE, 1)
    /\ noisy_level = 20
    /\ log_dir = "./logs"
    /\ configures = 1
    /\ last_file = TRUE
    /\ last_console = TRUE
    /\ last_op = "configure_logging"
    /\ log_calls = 1

\* -------------------------------------------------------- specifications
FetchInit ==
    /\ pc = "idle"
    /\ site = "L78"
    /\ url = ""
    /\ target = ""
    /\ data = NoBody
    /\ fetched_entities = <<>>
    /\ requests = <<>>
    /\ pages = <<>>
    /\ result = <<>>
    /\ exc = ""
    /\ log = <<>>
    /\ calls = <<>>
    /\ exit_code = -1

\* No command runs: the library is called directly.
NoCli ==
    /\ cli_pc = "none"
    /\ config_file = None
    /\ trial_id = None
    /\ sensorthingsapi_url = None
    /\ effective_trial_id = None
    /\ effective_sensorthingsapi_url = None
    /\ loads = 0

Init ==
    /\ server \in [URLs -> Responses]
    /\ FetchInit
    /\ NoCli
    /\ LogInit

Next ==
    \/ \E u \in URLs : Call(u)
    \/ FetchStep

Spec == Init /\ [][Next]_vars

\* The call is synchronous, single-threaded code: once started it keeps
\* taking its next step, and every request sent is answered.
\* The loop's control flow does not read the entities, so the pages of
\* this specification carry one `value` array or none.
FairInit ==
    /\ server \in [URLs -> ResponsesOver({<<"a">>})]
    /\ FetchInit
    /\ NoCli
    /\ LogInit

SpecFair == FairInit /\ [][Next]_vars /\ WF_vars(FetchStep)

\* One run of `plots fetch` with any options.
CliInit ==
    /\ server \in [URLs -> ResponsesOver({<<"a">>})]
    /\ FetchInit
    /\ cli_pc = "start"
    /\ config_file \in ConfigFileArgs
    /\ trial_id \in TrialIdArgs
    /\ sensorthingsapi_url \in UrlArgs
    /\ effective_trial_id = None
    /\ effective_sensorthingsapi_url = None
    /\ loads = 0
    /\ CliLogInit

CliNext ==
    \/ ValidateConflict
    \/ ValidateMissing
    \/ ValidatePass
    \/ \E config \in LoadedConfigs : LoadConfig(config)
    \/ \E e \in LoadConfigRaises : LoadConfigFails(e)
    \/ UseArguments
    \/ FetchPlotsGeojson
    \/ FetchStep
    \/ FetchPlotsSuccess
    \/ SystemExitPropagates
    \/ ExceptFileNotFound
    \/ ExceptValueError
    \/ ExceptException

SpecCli == CliInit /\ [][CliNext]_vars

\* The logging calls of a process, in any order and with any arguments; no
\* fetch runs.
LogSpecInit ==
    /\ server = [u \in URLs |-> [kind |-> "ConnectionError", json |-> NoBody]]
    /\ FetchInit
    /\ NoCli
    /\ LogInit

LogNext ==
    \/ \E level \in LevelArgs, dir \in LogDirArgs, file \in BOOLEAN,
          console \in BOOLEAN, use_rich \in BOOLEAN, rich_works \in BOOLEAN,
          suppress \in BOOLEAN :
            ConfigureLogging(level, dir, file, console, use_rich, rich_works, suppress)
    \/ \E level \in LevelArgs : SetLevel(level)

SpecLog == LogSpecInit /\ [][LogNext]_vars

\* ---------------------------------------------------------------- helpers
Last(s) == s[Len(s)]

\* value(P1) ++ ... ++ value(Pn) of pages that all carry `value`.
RECURSIVE ConcatValues(_)
ConcatValues(ps) ==
    IF ps = <<>> THEN <<>>
    ELSE ConcatValues(SubSeq(ps, 1, Len(ps) - 1)) \o Last(ps).json[KeyValue]

RECURSIVE SumValueLengths(_)
SumValueLengths(ps) ==
    IF ps = <<>> THEN 0
    ELSE SumValueLengths(SubSeq(ps, 1, Len(ps) - 1)) + Len(Last(ps).json[KeyValue])

\* The next-link a page continues with, None when it does not continue.
PageLink(p) == IF p.kind = "OK" THEN DictGet(p.json, KeyNextLink) ELSE None

\* A response that is a transport failure or an HTTP error status.
IsFailure(p) == p.kind \in {"ConnectionError", "HTTPError"}

\* The response a finished call ended on (the server is fixed).
LastResponse(c) == server[Last(c.requests)]

\* From URL u the server's pages end, after at most n links, in a page
\* without next-link; every page on the way is a 200 JSON page with `value`.
RECURSIVE EndsWithin(_, _)
EndsWithin(u, n) ==
    /\ server[u].kind = "OK"
    /\ KeyValue \in DOMAIN server[u].json
    /\ \/ ~Truthy(PageLink(server[u]))
       \/ n > 0 /\ Truthy(PageLink(server[u])) /\ EndsWithin(PageLink(server[u]), n - 1)

ChainEnds(u) == EndsWithin(u, Cardinality(URLs))

\* From URL u every page the server hands out is a 200 JSON page with
\* `value` and a non-empty next-link (followed for n links).
RECURSIVE LinkedFor(_, _)
LinkedFor(u, n) ==
    /\ server[u].kind = "OK"
    /\ KeyValue \in DOMAIN server[u].json
    /\ Truthy(PageLink(server[u]))
    /\ n > 0 => LinkedFor(PageLink(server[u]), n - 1)

AlwaysLinked(u) == LinkedFor(u, Cardinality(URLs))

\* The pages form a chain: every page but the last links on, the last does not.
IsChain(ps) ==
    /\ ps # <<>>
    /\ \A k \in 1..Len(ps) :
          /\ ps[k].kind = "OK"
          /\ KeyValue \in DOMAIN ps[k].json
          /\ Truthy(PageLink(ps[k])) <=> k < Len(ps)

\* ------------------------------------------------------------------ claims
\* C1: when every request succeeds and the pages P1..Pn form a chain, the
\* fetch returns exactly value(P1) ++ ... ++ value(Pn), in page order, and
\* the result's length is the sum of the pages' value lengths; while the
\* fetch runs, the accumulator is the concatenation of the pages read so far.
C1_ResultIsConcatenation ==
    /\ pc \in {"L81", "L85"} => fetched_entities = ConcatValues(pages)
    /\ pc = "returned" =>
          /\ IsChain(pages)
          /\ result = <<ConcatValues(pages)>>
          /\ Len(result[1]) = SumValueLengths(pages)
          /\ Last(calls).result = result

C1_Witness ==
    /\ pc = "returned"
    /\ Len(pages) = 3
    /\ result = <<<<"b", "c", "a", "b", "c">>>>

\* C2: the first request goes to the initial URL, request k+1 goes to the
\* next-link of the response to request k and exists only once that response
\* is there, at most one request is outstanding, and nothing is requested
\* after a page without next-link: a returning fetch of n pages made n calls.
C2_RequestSequence ==
    /\ requests # <<>> => requests[1] = url
    /\ Len(pages) <= Len(requests)
    /\ Len(requests) <= Len(pages) + 1
    /\ \A k \in 1..(Len(requests) - 1) :
          /\ k <= Len(pages)
          /\ Truthy(PageLink(pages[k]))
          /\ requests[k + 1] = PageLink(pages[k])
    /\ pc = "returned" =>
          /\ Len(requests) = Len(pages)
          /\ ~Truthy(PageLink(Last(pages)))

C2_Witness ==
    /\ pc = "returned"
    /\ requests = <<"u2", "u3", "u1">>

\* C3 (as claimed): a page without a `value` field counts as an empty page
\* and does not make the fetch fail; a single page with neither `value` nor
\* next-link makes the fetch return the empty collection.
C3_AbsentValueIsEmpty ==
    \A k \in 1..Len(pages) :
        (pages[k].kind = "OK" /\ KeyValue \notin DOMAIN pages[k].json) =>
            /\ exc # "KeyError"
            /\ (pc \in {"raised", "exited", "returned"} /\ pages = <<[kind |-> "OK", json |-> NoBody]>>)
                  => result = <<<<>>>>

C5_TypedErrorNoExit ==
    \A k \in 1..Len(pages) :
        IsFailure(pages[k]) =>
            /\ pc = "raised"
            /\ exc = "FetchError"
            /\ exit_code = -1

\* C5 (amended): a transport failure or an HTTP error status is logged and
\* the fetch routine itself ends the process with sys.exit(1): the call ends
\* in SystemExit with exit code 1, no typed error is raised, and the exit
\* code is set on no other path of the fetch.
C5_FailureExitsProcess ==
    /\ \A k \in 1..Len(pages) :
          IsFailure(pages[k]) =>
              /\ pc = "exited"
              /\ exc = "SystemExit"
              /\ exit_code = 1
              /\ log # <<>>
              /\ Last(calls).outcome = "exited"
    /\ exit_code # -1 => (pages # <<>> /\ IsFailure(Last(pages)))

C5_Witness ==
    /\ pc = "exited"
    /\ exit_code = 1
    /\ Last(pages).kind = "HTTPError"
    /\ Len(pages) = 2

\* C6 (as claimed): a 200 response whose body is not JSON ends the fetch
\* with the same kind of error as a transport failure or error status does.
C6_BadJsonSameKindAsFailure ==
    \A i, j \in 1..Len(calls) :
        (LastResponse(calls[i]).kind = "NotJSON" /\ IsFailure(LastResponse(calls[j])))
            => /\ calls[i].exc = calls[j].exc
               /\ calls[i].outcome = calls[j].outcome

\* The safety part of C7: the loop is left, and a call returns, only on a
\* page without next-link; a finished call returned exactly when its pages
\* end in such a page, and no call against pages that all link on finished.
C7_OnlyExitIsMissingLink ==
    /\ pc \in {"L85", "returned"} => ~Truthy(PageLink(Last(pages)))
    /\ \A i \in 1..Len(calls) :
          /\ ~AlwaysLinked(calls[i].url)
          /\ ChainEnds(calls[i].url) => calls[i].outcome = "returned"
          /\ calls[i].outcome = "returned" => ChainEnds(calls[i].url)

\* C7: the loop leaves only through a page without next-link; a call whose
\* pages (each a 200 JSON page with `value`) end in such a page eventually
\* returns; a call against pages that all link on never returns and keeps
\* requesting, up to any number of requests.
C7_Termination ==
    /\ []C7_OnlyExitIsMissingLink
    /\ (pc = "L60" /\ requests = <<>> /\ ChainEnds(url)) ~> (pc = "returned")
    /\ (pc = "L60" /\ requests = <<>> /\ AlwaysLinked(url))
          ~> (Len(requests) = MaxRequests)

C7_Witness ==
    /\ calls # <<>>
    /\ calls[1].outcome = "returned"
    /\ Len(calls[1].requests) = 2
    /\ AlwaysLinked(url)
    /\ Len(requests) = MaxRequests
    /\ pc = "L60"

\* C10: two calls with the same initial URL against the same pages end the
\* same way: same request sequence, same result, same outcome.
C10_RepeatedFetchIdentical ==
    \A i, j \in 1..Len(calls) :
        calls[i].url = calls[j].url => calls[i] = calls[j]

C10_Witness ==
    /\ Len(calls) = 2
    /\ calls[1].url = calls[2].url
    /\ calls[2].outcome = "returned"
    /\ Len(calls[2].requests) >= 2
    /\ calls[2].result = <<<<"a", "b", "c">>>>

\* An option was passed on the command line, with any value.
Given(x) == x # None

\* C8 (as claimed): when --config is given together with --trial-id or
\* --sensorthingsapi-url, or --config is absent and one of the two others is
\* missing, the command exits with code 1 and loads no configuration file
\* and sends no request.
C8_InvalidOptionsExitEarly ==
    (\/ Given(config_file) /\ (Given(trial_id) \/ Given(sensorthingsapi_url))
     \/ ~Given(config_file) /\ ~(Given(trial_id) /\ Given(sensorthingsapi_url)))
        => /\ cli_pc \in {"start", "exit"}
           /\ loads = 0
           /\ requests = <<>>
           /\ cli_pc = "exit" => exit_code = 1

\* C8 (amended): the same, where an option counts as given only with a
\* non-empty value (an option given as the empty string counts as absent).
C8_InvalidNonEmptyOptionsExitEarly ==
    (\/ Truthy(config_file) /\ (Truthy(trial_id) \/ Truthy(sensorthingsapi_url))
     \/ ~Truthy(config_file) /\ ~(Truthy(trial_id) /\ Truthy(sensorthingsapi_url)))
        => /\ cli_pc \in {"start", "exit"}
           /\ loads = 0
           /\ requests = <<>>
           /\ pc = "idle"
           /\ cli_pc = "exit" => (exit_code = 1 /\ log # <<>>)

C8_Witness ==
    /\ cli_pc = "exit"
    /\ exit_code = 1
    /\ config_file = "config.yml"
    /\ trial_id = None
    /\ sensorthingsapi_url = "u1"
    /\ loads = 0
    /\ requests = <<>>

\* C9: a run of `plots fetch` ends with exit code 0 exactly when the fetch
\* returned, and with exit code 1 on every error path: option conflict or
\* missing options, an exception of the configuration loader, a failed
\* request, an exception leaving the fetch.
C9_ExitCodes ==
    /\ exit_code \in {-1, 0, 1}
    /\ cli_pc = "exit" =>
          /\ exit_code \in {0, 1}
          /\ exit_code = 0 <=> (pc = "returned" /\ exc = "")
    /\ exit_code = 0 => cli_pc = "exit"
    /\ (cli_pc # "exit" /\ exit_code = 1) => (cli_pc = "fetching" /\ pc = "exited")

C9_Witness ==
    /\ cli_pc = "exit"
    /\ exit_code = 1
    /\ exc = "KeyError"
    /\ Len(pages) = 2
    /\ config_file = "config.yml"

\* The page's `@iot.nextLink` is absent, null or the empty string.
LinkAbsentOrEmpty(p) ==
    \/ KeyNextLink \notin DOMAIN p.json
    \/ p.json[KeyNextLink] \in {None, ""}

\* The sequence s ends with the sequence v.
EndsWith(s, v) ==
    /\ Len(v) <= Len(s)
    /\ SubSeq(s, Len(s) - Len(v) + 1, Len(s)) = v

\* C11: a page continues the pagination only when its `@iot.nextLink` is
\* present and non-empty.  A page with `value` whose next-link is absent,
\* null or "" is the final page: no request follows it, its values are the
\* end of the accumulator and of the returned list; a page with a URL as
\* next-link never ends the loop; no request goes to an empty URL.
C11_FinalPageIffNoLink ==
    /\ \A i \in 1..Len(requests) : requests[i] \in URLs
    /\ pc \in {"L60", "L60r"} => target \in URLs
    /\ \A k \in 1..Len(pages) :
          (pages[k].kind = "OK" /\ KeyValue \in DOMAIN pages[k].json) =>
              IF LinkAbsentOrEmpty(pages[k])
              THEN /\ k = Len(pages)
                   /\ Len(requests) = k
                   /\ pc \in {"L79", "L83", "L81", "L85", "returned"}
                   /\ pc \in {"L81", "L85"} =>
                         EndsWith(fetched_entities, pages[k].json[KeyValue])
                   /\ pc = "returned" =>
                         /\ result = <<fetched_entities>>
                         /\ EndsWith(result[1], pages[k].json[KeyValue])
              ELSE /\ pages[k].json[KeyNextLink] \in URLs
                   /\ k = Len(pages) => pc \in {"L79", "L83", "L81", "L60", "L60r"}
                   /\ k < Len(pages) => requests[k + 1] = pages[k].json[KeyNextLink]

C11_Witness ==
    /\ Len(calls) = 2
    /\ calls[1].outcome = "returned"
    /\ LastResponse(calls[1]).json = Dict({KeyValue, KeyNextLink}, <<"a">>, None)
    /\ pc = "returned"
    /\ Len(pages) = 2
    /\ Last(pages).json = Dict({KeyValue, KeyNextLink}, <<"b", "c">>, "")
    /\ result = <<<<"a", "b", "c">>>>

\* The handlers of the root logger of the kinds `kinds`.
HandlersOfKind(kinds) == {i \in DOMAIN handlers : handlers[i].kind \in kinds}

====
